---------------------------- MODULE Spec2Model ----------------------------
(***************************************************************************)
(* FilterController of src/controllers/filtercontroller.cpp: the startup   *)
(* metadata scan (constructor, timerEvent, loadFilterMetadata), the        *)
(* lookup of a service's descriptor (metadataForService), the selection    *)
(* state machine (setCurrentFilter and the handleAttached* slots) and the  *)
(* event relay to the active QmlFilter adapter.                            *)
(*                                                                         *)
(* Every slot runs to completion on the single UI thread, so each slot is  *)
(* one action.  The signals a slot emits, the adapters it builds and       *)
(* deletes and its writes of m_currentFilterIndex are recorded, in program *)
(* order, in the variable "emitted", which holds the trace of the slot     *)
(* that ran last; "lastOp" names that slot and its arguments.              *)
(***************************************************************************)
EXTENDS Integers, Sequences, FiniteSets, TLC

(***************************************************************************)
(* Bounds of the model.                                                    *)
(***************************************************************************)
\* Largest number of metadata files the filters directory holds.
MaxFiles == 2
\* Largest number of rows of the attached-filters model.
MaxRows == 2

(***************************************************************************)
(* Program constants.                                                      *)
(***************************************************************************)
\* QmlFilter::NoCurrentFilter and QmlFilter::DeselectCurrentFilter.
NoCurrentFilter == -1
DeselectCurrentFilter == -2

\* Null pointers (QmlMetadata *, Mlt::Service *, QmlFilter *).
NullMeta == 0
NullService == 0
NullId == 0

VARIABLES
    \* --- environment of the metadata scan
    dir,                 \* the meta*.qml files of the filters directory, in scan order
    engine,              \* the MLT repository: filters, links, producers, metadata
    \* --- controller
    timerActive,         \* the zero-delay timer started by the constructor is running
    loadCount,           \* number of loadFilterMetadata executions so far
    m_metadataModel,     \* MetadataModel: sequence of QmlMetadata objects
    log,                 \* log entries written by loadFilterMetadata for each file
    m_attachedModel,     \* AttachedFiltersModel: sequence of [meta, service] rows
    hide,                \* the "_hide" property of each Mlt service
    m_currentFilterIndex,
    m_mltService,
    m_currentFilter,     \* QScopedPointer<QmlFilter>: the adapter, or NullFilter
    live,                \* ids of the QmlFilter objects that exist
    emitted,             \* trace of the slot that ran last
    lastOp               \* the slot that ran last, with its arguments

vars == <<dir, engine, timerActive, loadCount, m_metadataModel, log,
          m_attachedModel, hide, m_currentFilterIndex, m_mltService,
          m_currentFilter, live, emitted, lastOp>>

loaderVars == <<timerActive, loadCount, m_metadataModel, log>>
selectionVars == <<m_attachedModel, hide, m_currentFilterIndex, m_mltService,
                   m_currentFilter, live>>

(***************************************************************************)
(* The metadata scan.                                                      *)
(***************************************************************************)
\* Names of MLT services a descriptor may bind to.
Services == {"svc"}

\* A version string of the engine: an optional "lavfi" prefix followed by a
\* number; num = 0 stands for no digits at all, so [lavfi |-> FALSE, num |-> 0]
\* is the empty string.
VersionNums == {0, 1, 3}
VersionStrings == [lavfi : BOOLEAN, num : VersionNums]
EmptyString == [lavfi |-> FALSE, num |-> 0]
\* mltMetadata->get("version") is a null pointer when the property is absent.
NoVersion == [lavfi |-> FALSE, num |-> -1]

\* minimumVersion of a descriptor; 0 stands for none declared.
MinimumVersions == {0, 2}

\* The outcome of instantiating one meta*.qml file: ok = FALSE is a file
\* whose component.create() yields no QmlMetadata.
Malformed ==
    [ok |-> FALSE, mlt_service |-> "svc", type |-> "Filter", objectName |-> "",
     minimumVersion |-> 0, isDeprecated |-> FALSE]

Descriptors ==
    [ok : {TRUE}, mlt_service : Services, type : {"Filter", "Link"},
     objectName : {"", "maskGlaxnimate"}, minimumVersion : MinimumVersions,
     isDeprecated : BOOLEAN]
    \cup {Malformed}

Directories == UNION {[1..n -> Descriptors] : n \in 0..MaxFiles}

Engines ==
    [filters : SUBSET Services, links : SUBSET Services,
     glaxnimate : BOOLEAN, version : [Services -> VersionStrings \cup {NoVersion}]]

\* QString::startsWith("lavfi") followed by remove(0, 5) (lines 76-77).
stripLavfi(version) ==
    IF version.lavfi THEN [version EXCEPT !.lavfi = FALSE] ELSE version

\* The local QString version of lines 73-78: empty unless the engine's
\* metadata of the service holds a version property.
engineVersion(eng, service) ==
    IF eng.version[service] = NoVersion
    THEN EmptyString
    ELSE stripLavfi(eng.version[service])

\* QmlMetadata::isMltVersion: no minimum declared, or the version is a plain
\* number not below the minimum.
isMltVersion(meta, version) ==
    \/ meta.minimumVersion = 0
    \/ (~version.lavfi /\ version.num >= meta.minimumVersion)

\* The condition of lines 81-84.
filterAccepted(eng, meta) ==
    /\ meta.mlt_service \in eng.filters
    /\ ("maskGlaxnimate" # meta.objectName \/ eng.glaxnimate)
    /\ LET version == engineVersion(eng, meta.mlt_service)
       IN version = EmptyString \/ isMltVersion(meta, version)

\* linkAccepted without the test of the descriptor's type.
linkAcceptedAnyType(eng, meta) == meta.mlt_service \in eng.links

\* The condition of lines 96-97.
linkAccepted(eng, meta) ==
    meta.type = "Link" /\ meta.mlt_service \in eng.links

\* The QmlMetadata object component.create() builds from file i.  Its name
\* is a sequence of tokens, the display name first.
newMetadata(i, d) ==
    [file |-> i, mlt_service |-> d.mlt_service, type |-> d.type,
     objectName |-> d.objectName, minimumVersion |-> d.minimumVersion,
     isDeprecated |-> d.isDeprecated, name |-> <<"name">>]

\* addMetadata (lines 321-326): m_metadataModel.add(meta).
addMetadata(model, meta) == Append(model, meta)

\* labelDeprecated without the test of isDeprecated.
labelDeprecatedAll(model, i) ==
    [k \in 1..Len(model) |->
        IF model[k].file = i
        THEN [model[k] EXCEPT !.name = Append(@, "(DEPRECATED)")]
        ELSE model[k]]

\* Lines 105-106 on the object of file i: the model holds the object by
\* pointer, so a model entry for file i sees the new name.
labelDeprecated(model, i) ==
    [k \in 1..Len(model) |->
        IF model[k].file = i /\ model[k].isDeprecated
        THEN [model[k] EXCEPT !.name = Append(@, "(DEPRECATED)")]
        ELSE model[k]]

\* loadFile without the warning for a file that fails to instantiate.
loadFileNoWarning(eng, i, d, model, lg) ==
    LET lg1 == Append(lg, <<"reading filter metadata", i>>)
        meta == newMetadata(i, d)
    IN  IF d.ok /\ filterAccepted(eng, meta)
        THEN <<labelDeprecated(addMetadata(model, meta), i),
               Append(lg1, <<"added filter", i>>)>>
        ELSE IF d.ok /\ linkAccepted(eng, meta)
             THEN <<labelDeprecated(addMetadata(model, meta), i),
                    Append(lg1, <<"added link", i>>)>>
             ELSE <<model, lg1>>

\* One iteration of the inner foreach of loadFilterMetadata (lines 66-110) on
\* file i: the pair <<metadata model, log>> after it.  loadSettings, setPath,
\* setParent and the keyframes version check (lines 86-88, 92-95) touch only
\* fields of the descriptor that the controller never reads back.
loadFile(eng, i, d, model, lg) ==
    LET lg1 == Append(lg, <<"reading filter metadata", i>>)
        meta == newMetadata(i, d)
    IN  IF d.ok
        THEN IF filterAccepted(eng, meta)
             THEN <<labelDeprecated(addMetadata(model, meta), i),
                    Append(lg1, <<"added filter", i>>)>>
             ELSE IF linkAccepted(eng, meta)
                  THEN <<labelDeprecated(addMetadata(model, meta), i),
                         Append(lg1, <<"added link", i>>)>>
                  ELSE <<model, lg1>>
        ELSE <<model, Append(lg1, <<"warning", i>>)>>

RECURSIVE loadFrom(_, _, _, _, _)
\* The foreach loops of loadFilterMetadata over the files i..Len(files).
loadFrom(eng, files, i, model, lg) ==
    IF i > Len(files)
    THEN <<model, lg>>
    ELSE LET r == loadFile(eng, i, files[i], model, lg)
         IN  loadFrom(eng, files, i + 1, r[1], r[2])

\* loadFilterMetadata (lines 53-113).
loadFilterMetadata(eng, files, model, lg) == loadFrom(eng, files, 1, model, lg)

(***************************************************************************)
(* metadataForService.                                                     *)
(***************************************************************************)
\* QmlMetadata::uniqueId: the objectName of the descriptor, or its
\* mlt_service when it has no objectName.
uniqueId(meta) ==
    IF meta.objectName # "" THEN meta.objectName ELSE meta.mlt_service

\* The two properties of an Mlt service that metadataForService reads:
\* kShotcutFilterProperty and "mlt_service"; get() of an absent property
\* makes an empty QString.
ServiceProperties ==
    [filter : {"", "svc", "maskGlaxnimate"}, mlt_service : {"", "svc", "other"}]

RECURSIVE findMetadata(_, _, _)
\* The loop of lines 127-133 from row i on: the object of the first row
\* whose uniqueId is id, or null.
findMetadata(model, id, i) ==
    IF i > Len(model)
    THEN NullMeta
    ELSE IF uniqueId(model[i]) = id
         THEN model[i].file
         ELSE findMetadata(model, id, i + 1)

\* metadataForService without the fallback to mlt_service.
metadataForServiceNoFallback(model, service) ==
    findMetadata(model, service.filter, 1)

\* metadataForService (lines 115-137); a QmlMetadata pointer is the number
\* of the file the object was built from.
metadataForService(model, service) ==
    LET id == IF service.filter = "" THEN service.mlt_service ELSE service.filter
    IN  findMetadata(model, id, 1)

(***************************************************************************)
(* The attached-filters model, the Mlt services and the QmlFilter adapter. *)
(***************************************************************************)
\* QmlMetadata objects the rows of the attached model refer to.
MetaIds == {1}
\* Mlt services: every row with a service has one of its own, and a removed
\* row's service lives on while m_mltService or an adapter refers to it.
ServiceIds == 1..(MaxRows + 2)
\* Addresses of QmlFilter objects.
FilterIds == {1, 2, 3}

\* The null QmlFilter pointer.
NullFilter == [id |-> NullId, service |-> NullService, meta |-> NullMeta, isNew |-> FALSE]

\* AttachedFiltersModel::rowCount.
rowCount(am) == Len(am)

\* AttachedFiltersModel::getMetadata: null for a row that does not exist.
getMetadata(am, row) ==
    IF row >= 0 /\ row < rowCount(am) THEN am[row + 1].meta ELSE NullMeta

\* AttachedFiltersModel::getService: null for a row that does not exist.
getService(am, row) ==
    IF row >= 0 /\ row < rowCount(am) THEN am[row + 1].service ELSE NullService

\* qBound(min, val, max) == qMax(min, qMin(max, val)).
qBound(min, val, max) ==
    LET m == IF max < val THEN max ELSE val
    IN  IF min < m THEN m ELSE min

\* One entry of the trace of a slot: a signal emitted, an adapter built or
\* deleted, a property cleared, or a write of m_currentFilterIndex; "by" is
\* the function whose statement it is, "live" the number of QmlFilter
\* objects that exist at that point.
event(sig, by, filter, meta, index, st) ==
    [sig |-> sig, by |-> by, filter |-> filter, meta |-> meta, index |-> index,
     live |-> Cardinality(st.live)]

\* The controller's fields as one record, for the functions the slots call.
controller ==
    [idx |-> m_currentFilterIndex, svc |-> m_mltService, flt |-> m_currentFilter,
     hide |-> hide, live |-> live, em |-> <<>>]

emit(st, sig, by, filter, meta, index) ==
    [st EXCEPT !.em = Append(@, event(sig, by, filter, meta, index, st))]

\* Lines 184-189: clear "_hide" on the previous service and refresh.
clearHide(st) ==
    IF st.svc # NullService /\ st.hide[st.svc]
    THEN emit(emit([st EXCEPT !.hide[st.svc] = FALSE],
                   "clear _hide", "setCurrentFilter", NullId, NullMeta, st.idx),
              "refreshConsumer", "setCurrentFilter", NullId, NullMeta, st.idx)
    ELSE st

\* resetCurrentFilter that overwrites the pointer and deletes nothing.
resetCurrentFilterLeaking(st, filter) == [st EXCEPT !.flt = filter]

\* Line 204, QScopedPointer::reset: the pointer takes the new adapter and
\* the adapter it held, if another one, is deleted.
resetCurrentFilter(st, filter) ==
    IF st.flt.id = filter.id
    THEN st
    ELSE LET s1 == [st EXCEPT !.flt = filter, !.live = @ \ {st.flt.id}]
         IN  IF st.flt.id # NullId
             THEN emit(s1, "delete QmlFilter", "setCurrentFilter", st.flt.id,
                       st.flt.meta, st.idx)
             ELSE s1

\* Lines 203-204.
notifyAndReset(st, filter, meta) ==
    resetCurrentFilter(
        emit(st, "currentFilterChanged", "setCurrentFilter", filter.id, meta, st.idx),
        filter)

\* Lines 197-200: new QmlFilter(*m_mltService, meta); setIsNew(isNew).
newQmlFilter(st, meta, isNew) ==
    [id |-> CHOOSE i \in FilterIds : i \notin st.live,
     service |-> st.svc, meta |-> meta, isNew |-> isNew]

\* setCurrentFilter without its early return.
sameIndexNever(st, attachedIndex) == FALSE

\* Line 177: the early return of setCurrentFilter.
sameIndex(st, attachedIndex) == attachedIndex = st.idx

\* FilterController::setCurrentFilter (lines 174-206).
setCurrentFilter(am, st, attachedIndex, isNew) ==
    IF sameIndex(st, attachedIndex)
    THEN st
    ELSE
      LET s1 == emit([st EXCEPT !.idx = attachedIndex], "m_currentFilterIndex =",
                     "setCurrentFilter", NullId, NullMeta, attachedIndex)
          s2 == clearHide(s1)
          meta == getMetadata(am, s2.idx)
      IN  IF meta # NullMeta
          THEN LET s3 == emit(s2, "currentFilterChanged", "setCurrentFilter",
                              NullId, NullMeta, NoCurrentFilter)
                   s4 == [s3 EXCEPT !.svc = getService(am, s3.idx)]
               IN  IF s4.svc = NullService
                   THEN s4
                   ELSE LET filter == newQmlFilter(s4, meta, isNew)
                            s5 == emit([s4 EXCEPT !.live = @ \cup {filter.id}],
                                       "new QmlFilter", "setCurrentFilter",
                                       filter.id, meta, s4.idx)
                        IN  notifyAndReset(s5, filter, meta)
          ELSE notifyAndReset(s2, NullFilter, NullMeta)

\* Service ids stand for addresses of Mlt services, which the controller
\* only stores and compares for equality.  Between slots the addresses are
\* named canonically: the service of row k is k, and a service of no row
\* that m_mltService or the adapter still refers to is MaxRows + 1 (or
\* MaxRows + 2 for a second one).
canonicalService(am, st, s) ==
    IF s = NullService THEN NullService
    ELSE IF \E k \in 1..Len(am) : am[k].service = s
         THEN CHOOSE k \in 1..Len(am) : am[k].service = s
         ELSE IF s = st.svc THEN MaxRows + 1
         ELSE IF s = st.flt.service
              THEN (IF st.svc = NullService \/ \E k \in 1..Len(am) : am[k].service = st.svc
                    THEN MaxRows + 1 ELSE MaxRows + 2)
         ELSE NullService

\* The "_hide" properties under the canonical names; a service nothing
\* refers to is gone.
canonicalHide(am, st) ==
    [t \in ServiceIds |->
        \E s \in ServiceIds : canonicalService(am, st, s) = t /\ st.hide[s]]

canonicalRows(am, st) ==
    [k \in 1..Len(am) |->
        [am[k] EXCEPT !.service = canonicalService(am, st, @)]]

\* The attached model and the controller's fields after a slot, and the
\* slot's trace.
commit(am, st, op) ==
    /\ m_attachedModel' = canonicalRows(am, st)
    /\ m_currentFilterIndex' = st.idx
    /\ m_mltService' = canonicalService(am, st, st.svc)
    /\ m_currentFilter' = [st.flt EXCEPT !.service = canonicalService(am, st, @)]
    /\ hide' = canonicalHide(am, st)
    /\ live' = st.live
    /\ emitted' = st.em
    /\ lastOp' = [op EXCEPT !.service = canonicalService(am, st, @)]

\* A slot and its arguments: a row or index (arg), the service of a new row
\* (service), the service an engine event originates from (origin), delta.
operation(op, arg, service, delta) ==
    [op |-> op, arg |-> arg, service |-> service, origin |-> NullService,
     delta |-> delta]

(***************************************************************************)
(* The slots.                                                              *)
(***************************************************************************)
\* handleAttachedModelAboutToReset that leaves the selection as it is.
handleAttachedModelAboutToResetIgnored(am, st) == st

\* handleAttachedModelAboutToReset (lines 257-262).
handleAttachedModelAboutToReset(am, st) ==
    setCurrentFilter(am, st, NoCurrentFilter, FALSE)

\* handleAttachedRowsRemoved that writes the sentinel and selects nothing.
handleAttachedRowsRemovedNoSelect(am, st, first) ==
    emit([st EXCEPT !.idx = DeselectCurrentFilter], "m_currentFilterIndex =",
         "handleAttachedRowsRemoved", NullId, NullMeta, DeselectCurrentFilter)

\* handleAttachedRowsRemoved (lines 264-270).
handleAttachedRowsRemoved(am, st, first) ==
    setCurrentFilter(am,
        emit([st EXCEPT !.idx = DeselectCurrentFilter], "m_currentFilterIndex =",
             "handleAttachedRowsRemoved", NullId, NullMeta, DeselectCurrentFilter),
        qBound(0, first, rowCount(am) - 1), FALSE)

\* handleAttachedRowsInserted that does not mark the adapter new.
handleAttachedRowsInsertedNotNew(am, st, first) ==
    setCurrentFilter(am,
        emit([st EXCEPT !.idx = DeselectCurrentFilter], "m_currentFilterIndex =",
             "handleAttachedRowsInserted", NullId, NullMeta, DeselectCurrentFilter),
        qBound(0, first, rowCount(am) - 1), FALSE)

\* handleAttachedRowsInserted (lines 272-278).
handleAttachedRowsInserted(am, st, first) ==
    setCurrentFilter(am,
        emit([st EXCEPT !.idx = DeselectCurrentFilter], "m_currentFilterIndex =",
             "handleAttachedRowsInserted", NullId, NullMeta, DeselectCurrentFilter),
        qBound(0, first, rowCount(am) - 1), TRUE)

\* handleAttachDuplicateFailed that selects the row before it reports.
handleAttachDuplicateFailedSelectFirst(am, st, index) ==
    emit(setCurrentFilter(am, st, index, FALSE), "statusChanged",
         "handleAttachDuplicateFailed", NullId, getMetadata(am, index), index)

\* handleAttachDuplicateFailed (lines 280-287).
handleAttachDuplicateFailed(am, st, index) ==
    setCurrentFilter(am,
        emit(st, "statusChanged", "handleAttachDuplicateFailed", NullId,
             getMetadata(am, index), index),
        index, FALSE)

\* onQmlFilterChanged() (lines 289-294), the slot connected to the adapter's
\* changed() at line 199.
onQmlFilterChanged(st) ==
    emit(st, "filterChanged", "onQmlFilterChanged", NullId, NullMeta, st.idx)

\* onQmlFilterChanged(name) (lines 296-304), the slot connected to the
\* adapter's changed(QString) at line 200.
onQmlFilterChangedName(st, name) ==
    IF name = "disable"
    THEN emit(st, "dataChanged", "onQmlFilterChanged", NullId, NullMeta, st.idx)
    ELSE st

\* emit m_currentFilter->changed() and the slot it runs.
adapterChanged(st, by) ==
    onQmlFilterChanged(emit(st, "changed", by, st.flt.id, st.flt.meta, st.idx))

\* onFadeInChanged (lines 208-216).
onFadeInChanged(st) ==
    IF st.flt # NullFilter
    THEN emit(adapterChanged(st, "onFadeInChanged"), "animateInChanged",
              "onFadeInChanged", st.flt.id, st.flt.meta, st.idx)
    ELSE st

\* onFadeOutChanged (lines 218-226).
onFadeOutChanged(st) ==
    IF st.flt # NullFilter
    THEN emit(adapterChanged(st, "onFadeOutChanged"), "animateOutChanged",
              "onFadeOutChanged", st.flt.id, st.flt.meta, st.idx)
    ELSE st

\* relayCondition without the comparison of the services.
relayConditionAnyService(st, delta, service) ==
    delta # 0 /\ st.flt # NullFilter

\* The condition of lines 231-232 and 241-242.
relayCondition(st, delta, service) ==
    /\ delta # 0
    /\ st.flt # NullFilter
    /\ (service = NullService \/ st.flt.service = service)

\* onServiceInChanged (lines 228-236).
onServiceInChanged(st, delta, service) ==
    IF relayCondition(st, delta, service)
    THEN emit(st, "inChanged", "onServiceInChanged", st.flt.id, st.flt.meta, st.idx)
    ELSE st

\* onServiceOutChanged (lines 238-246).
onServiceOutChanged(st, delta, service) ==
    IF relayCondition(st, delta, service)
    THEN emit(st, "outChanged", "onServiceOutChanged", st.flt.id, st.flt.meta, st.idx)
    ELSE st

\* handleAttachedModelChange (lines 248-255).
handleAttachedModelChange(st) ==
    IF st.flt # NullFilter
    THEN onQmlFilterChangedName(
             emit(st, "changed(disable)", "handleAttachedModelChange",
                  st.flt.id, st.flt.meta, st.idx),
             "disable")
    ELSE st

(***************************************************************************)
(* The attached model's own changes.                                       *)
(***************************************************************************)
\* Services something still refers to.
usedServices(am, st) ==
    {am[k].service : k \in 1..Len(am)} \cup {st.svc, st.flt.service}

\* The service a new row gets: one nothing refers to, or none.
freshService(am, st, hasService) ==
    IF hasService
    THEN CHOOSE s \in ServiceIds \ usedServices(am, st) :
             \A t \in ServiceIds \ usedServices(am, st) : s <= t
    ELSE NullService

insertRow(am, first, row) ==
    SubSeq(am, 1, first) \o <<row>> \o SubSeq(am, first + 1, Len(am))

removeRow(am, first) ==
    SubSeq(am, 1, first) \o SubSeq(am, first + 2, Len(am))

RECURSIVE buildRows(_, _, _)
\* The rows of a producer's filter chain, each with a service of its own.
buildRows(shape, st, am) ==
    IF Len(am) = Len(shape)
    THEN am
    ELSE LET k == Len(am) + 1
         IN  buildRows(shape, st,
                 Append(am, [meta |-> shape[k].meta,
                             service |-> freshService(am, st, shape[k].hasService)]))

\* A row has metadata, a service, or both: a row without metadata is a
\* filter the metadata model does not know.
RowShapes ==
    {r \in [meta : MetaIds \cup {NullMeta}, hasService : BOOLEAN] :
        r.meta # NullMeta \/ r.hasService}

\* A new service has no "_hide" property.
withFresh(st, services) ==
    [st EXCEPT !.hide = [s \in ServiceIds |-> IF s \in services THEN FALSE ELSE @[s]]]

(***************************************************************************)
(* Initial states.                                                         *)
(***************************************************************************)
\* The state the constructor leaves (lines 33-51): the timer is started,
\* nothing is loaded, nothing is attached or selected.
Constructed ==
    /\ timerActive = TRUE
    /\ loadCount = 0
    /\ m_metadataModel = <<>>
    /\ log = <<>>
    /\ m_attachedModel = <<>>
    /\ hide = [s \in ServiceIds |-> FALSE]
    /\ m_currentFilterIndex = NoCurrentFilter
    /\ m_mltService = NullService
    /\ m_currentFilter = NullFilter
    /\ live = {}
    /\ emitted = <<>>
    /\ lastOp = operation("FilterController", NoCurrentFilter, NullService, 0)

\* An installation's filters directory and engine, for the runs of the
\* whole controller: an accepted filter and a file that fails to load.
InstalledDirectory ==
    <<[ok |-> TRUE, mlt_service |-> "svc", type |-> "Filter", objectName |-> "",
       minimumVersion |-> 2, isDeprecated |-> TRUE],
      Malformed>>

InstalledEngine ==
    [filters |-> {"svc"}, links |-> {}, glaxnimate |-> FALSE,
     version |-> [s \in Services |-> [lavfi |-> TRUE, num |-> 3]]]

Init ==
    /\ dir = InstalledDirectory
    /\ engine = InstalledEngine
    /\ Constructed

\* Every filters directory and engine within the bounds.
LoadInit ==
    /\ dir \in Directories
    /\ engine \in Engines
    /\ Constructed

\* An engine that provides every service as a filter and as a link, the
\* glaxnimate producer, and no version.
LookupEngine ==
    [filters |-> Services, links |-> Services, glaxnimate |-> TRUE,
     version |-> [s \in Services |-> NoVersion]]

\* Every filters directory, scanned against that engine.
LookupInit ==
    /\ dir \in Directories
    /\ engine = LookupEngine
    /\ Constructed

(***************************************************************************)
(* Actions: one per event the controller handles.                          *)
(***************************************************************************)
\* timerEvent without killTimer.
timerEventKeepsTimer ==
    LET r == loadFilterMetadata(engine, dir, m_metadataModel, log)
    IN  /\ m_metadataModel' = r[1]
        /\ log' = r[2]
        /\ loadCount' = loadCount + 1
        /\ timerActive' = timerActive

\* timerEvent (lines 139-147): the scan, then killTimer.
timerEvent ==
    LET r == loadFilterMetadata(engine, dir, m_metadataModel, log)
    IN  /\ m_metadataModel' = r[1]
        /\ log' = r[2]
        /\ loadCount' = loadCount + 1
        /\ timerActive' = FALSE

\* Qt delivers a timer event only while the timer runs.
TimerEvent ==
    /\ timerActive
    /\ timerEvent
    /\ emitted' = <<>>
    /\ lastOp' = operation("timerEvent", NoCurrentFilter, NullService, 0)
    /\ UNCHANGED <<dir, engine, selectionVars>>

\* A caller selects a row, or no row: setCurrentFilter(attachedIndex), isNew
\* taking its default.
SetCurrentFilter ==
    \E attachedIndex \in NoCurrentFilter..(rowCount(m_attachedModel) - 1) :
        /\ commit(m_attachedModel,
                  setCurrentFilter(m_attachedModel, controller, attachedIndex, FALSE),
                  operation("setCurrentFilter", attachedIndex, NullService, 0))
        /\ UNCHANGED <<dir, engine, loaderVars>>

\* The attached model, of at most maxRows rows, inserts a row at first and
\* emits rowsInserted.
RowsInsertedUpTo(maxRows) ==
    \E first \in 0..rowCount(m_attachedModel), shape \in RowShapes :
        /\ rowCount(m_attachedModel) < maxRows
        /\ LET service == freshService(m_attachedModel, controller, shape.hasService)
               am == insertRow(m_attachedModel, first,
                               [meta |-> shape.meta, service |-> service])
           IN  commit(am,
                      handleAttachedRowsInserted(am, withFresh(controller, {service}), first),
                      operation("rowsInserted", first, service, 0))
        /\ UNCHANGED <<dir, engine, loaderVars>>

RowsInserted == RowsInsertedUpTo(MaxRows)

\* The attached model removes the row at first and emits rowsRemoved.
RowsRemoved ==
    \E first \in 0..(rowCount(m_attachedModel) - 1) :
        /\ LET am == removeRow(m_attachedModel, first)
           IN  commit(am, handleAttachedRowsRemoved(am, controller, first),
                      operation("rowsRemoved", first, NullService, 0))
        /\ UNCHANGED <<dir, engine, loaderVars>>

\* removeCurrent that clears the selection by itself.
removeCurrentDeselecting(am, st) ==
    IF st.idx > NoCurrentFilter
    THEN <<am, emit([st EXCEPT !.idx = NoCurrentFilter], "m_currentFilterIndex =",
                    "removeCurrent", NullId, NullMeta, NoCurrentFilter)>>
    ELSE <<am, st>>

\* removeCurrent (lines 306-312); AttachedFiltersModel::remove ignores a row
\* that does not exist and otherwise removes it and emits rowsRemoved.  The
\* pair <<attached model, controller>> after it.
removeCurrent(am, st) ==
    IF st.idx > NoCurrentFilter
    THEN LET s1 == emit(st, "m_attachedModel.remove", "removeCurrent", NullId,
                        NullMeta, st.idx)
         IN  IF st.idx < rowCount(am)
             THEN <<removeRow(am, st.idx),
                    handleAttachedRowsRemoved(removeRow(am, st.idx), s1, st.idx)>>
             ELSE <<am, s1>>
    ELSE <<am, st>>

RemoveCurrent ==
    LET r == removeCurrent(m_attachedModel, controller)
    IN  /\ commit(r[1], r[2],
                  operation("removeCurrent", m_currentFilterIndex, NullService, 0))
        /\ UNCHANGED <<dir, engine, loaderVars>>

\* setProducer (lines 163-172): the attached model announces its reset,
\* then holds the rows of the new producer's filter chain, at most maxRows.
\* Lines 167-170 set two display flags of the metadata model.
SetProducerUpTo(maxRows) ==
    \E n \in 0..maxRows :
        \E shape \in [1..n -> RowShapes] :
            LET st == handleAttachedModelAboutToReset(m_attachedModel, controller)
                am == buildRows(shape, st, <<>>)
            IN  /\ commit(am, withFresh(st, {am[k].service : k \in 1..Len(am)}),
                          operation("setProducer", n, NullService, 0))
                /\ UNCHANGED <<dir, engine, loaderVars>>

SetProducer == SetProducerUpTo(MaxRows)

\* The attached model refuses to attach a second instance of the filter of
\* row index and emits duplicateAddFailed(index).
DuplicateAddFailed ==
    \E index \in 0..(rowCount(m_attachedModel) - 1) :
        /\ getMetadata(m_attachedModel, index) # NullMeta
        /\ commit(m_attachedModel,
                  handleAttachDuplicateFailed(m_attachedModel, controller, index),
                  operation("duplicateAddFailed", index, NullService, 0))
        /\ UNCHANGED <<dir, engine, loaderVars>>

\* The adapter's UI renders by itself and sets "_hide" on the adapter's
\* service (the comment of lines 182-183).
VuiHide ==
    /\ m_currentFilter # NullFilter
    /\ ~hide[m_currentFilter.service]
    /\ commit(m_attachedModel,
              [controller EXCEPT !.hide[m_currentFilter.service] = TRUE],
              operation("_hide", NoCurrentFilter, m_currentFilter.service, 0))
    /\ UNCHANGED <<dir, engine, loaderVars>>

\* The attached model emits changed().
AttachedModelChanged ==
    /\ commit(m_attachedModel, handleAttachedModelChange(controller),
              operation("changed", NoCurrentFilter, NullService, 0))
    /\ UNCHANGED <<dir, engine, loaderVars>>

\* Services an event may originate from: any service, or none.
Origins == ServiceIds \cup {NullService}
\* Changes of an in or out point, in frames.
Deltas == {-1, 0, 1}

\* A fade-in handle of the clip of service origin changes.
OnFadeInChanged ==
    \E origin \in Origins :
        /\ commit(m_attachedModel, onFadeInChanged(controller),
                  [operation("onFadeInChanged", NoCurrentFilter, NullService, 0)
                      EXCEPT !.origin = origin])
        /\ UNCHANGED <<dir, engine, loaderVars>>

\* A fade-out handle of the clip of service origin changes.
OnFadeOutChanged ==
    \E origin \in Origins :
        /\ commit(m_attachedModel, onFadeOutChanged(controller),
                  [operation("onFadeOutChanged", NoCurrentFilter, NullService, 0)
                      EXCEPT !.origin = origin])
        /\ UNCHANGED <<dir, engine, loaderVars>>

OnServiceInChanged ==
    \E delta \in Deltas, service \in Origins :
        /\ commit(m_attachedModel, onServiceInChanged(controller, delta, service),
                  [operation("onServiceInChanged", NoCurrentFilter, NullService, delta)
                      EXCEPT !.origin = service])
        /\ UNCHANGED <<dir, engine, loaderVars>>

OnServiceOutChanged ==
    \E delta \in Deltas, service \in Origins :
        /\ commit(m_attachedModel, onServiceOutChanged(controller, delta, service),
                  [operation("onServiceOutChanged", NoCurrentFilter, NullService, delta)
                      EXCEPT !.origin = service])
        /\ UNCHANGED <<dir, engine, loaderVars>>

\* The adapter's UI changes a parameter: the adapter emits changed().
QmlFilterChanged ==
    /\ m_currentFilter # NullFilter
    /\ commit(m_attachedModel, onQmlFilterChanged(controller),
              operation("changed()", NoCurrentFilter, NullService, 0))
    /\ UNCHANGED <<dir, engine, loaderVars>>

\* onProducerChanged (lines 314-319).
OnProducerChanged ==
    /\ commit(m_attachedModel,
              emit(controller, "trackTitleChanged", "onProducerChanged", NullId,
                   NullMeta, NoCurrentFilter),
              operation("onProducerChanged", NoCurrentFilter, NullService, 0))
    /\ UNCHANGED <<dir, engine, loaderVars>>

\* A caller resolves an Mlt service to its descriptor; the trace holds the
\* pointer returned and lastOp.service the properties of the service.
MetadataForService ==
    \E service \in ServiceProperties :
        /\ emitted' = <<event("return", "metadataForService", NullId,
                              metadataForService(m_metadataModel, service),
                              NoCurrentFilter, controller)>>
        /\ lastOp' = operation("metadataForService", NoCurrentFilter, service, 0)
        /\ UNCHANGED <<dir, engine, loaderVars, selectionVars>>

(***************************************************************************)
(* Specifications.                                                         *)
(***************************************************************************)
\* The selection state machine: the attached model's changes and the calls
\* that select a row.
Next ==
    \/ SetCurrentFilter
    \/ RowsInserted
    \/ RowsRemoved
    \/ RemoveCurrent
    \/ SetProducer
    \/ DuplicateAddFailed
    \/ VuiHide

Spec == Init /\ [][Next]_vars

\* Largest number of rows of the attached model in the runs of every event.
EventRows == 1

\* Every event the controller handles: the timer, the attached model's
\* signals, the calls, the relayed engine events.
EventNext ==
    \/ TimerEvent
    \/ SetCurrentFilter
    \/ RowsInsertedUpTo(EventRows)
    \/ RowsRemoved
    \/ RemoveCurrent
    \/ SetProducerUpTo(EventRows)
    \/ DuplicateAddFailed
    \/ VuiHide
    \/ AttachedModelChanged
    \/ OnFadeInChanged
    \/ OnFadeOutChanged
    \/ OnServiceInChanged
    \/ OnServiceOutChanged
    \/ QmlFilterChanged
    \/ OnProducerChanged

EventSpec == Init /\ [][EventNext]_vars

\* The startup scan alone, over every directory and engine.
LoadNext == TimerEvent

LoadSpec == LoadInit /\ [][LoadNext]_vars

\* The scan of every directory followed by lookups of services.
LookupNext ==
    \/ TimerEvent
    \/ MetadataForService

LookupSpec == LookupInit /\ [][LookupNext]_vars

(***************************************************************************)
(* Properties.                                                             *)
(***************************************************************************)
\* The entries of the last slot's trace with signal sig.
eventsOf(sig) == SelectSeq(emitted, LAMBDA e : e.sig = sig)

\* The currentFilterChanged notifications of the last slot, in order.
notifications == eventsOf("currentFilterChanged")

\* Whether the last slot's setCurrentFilter call passed the equal-index
\* check and went on to write the index.
selectionChanged ==
    \E k \in 1..Len(emitted) :
        emitted[k].sig = "m_currentFilterIndex =" /\ emitted[k].by = "setCurrentFilter"

\* C1: once handleAttachedRowsInserted or handleAttachedRowsRemoved has
\* returned, m_currentFilterIndex lies in [0, rowCount - 1], also when the
\* removal leaves the list empty.
C1_IndexBoundedAfterRowChange ==
    lastOp.op \in {"rowsInserted", "rowsRemoved"} =>
        /\ 0 <= m_currentFilterIndex
        /\ m_currentFilterIndex <= rowCount(m_attachedModel) - 1

\* C2 as claimed: at every point of every setCurrentFilter execution, and
\* after it, at most one QmlFilter exists.
C2_AtMostOneAdapterAtEveryPoint ==
    /\ Cardinality(live) <= 1
    /\ \A k \in 1..Len(emitted) : emitted[k].live <= 1

\* C2 amended: between slots at most one QmlFilter exists and it is the one
\* m_currentFilter holds; inside setCurrentFilter the new adapter is built
\* and announced while the previous one still exists, so two exist at once,
\* never more, and the previous one is deleted last.
C2_AtMostOneAdapterBetweenSlots ==
    /\ live = {m_currentFilter.id} \ {NullId}
    /\ \A k \in 1..Len(emitted) : emitted[k].live <= 2
    /\ \A k \in 1..Len(emitted) :
          emitted[k].sig = "delete QmlFilter" =>
              /\ k = Len(emitted)
              /\ emitted[k].live = Cardinality(live)

\* A selection change that replaced one adapter by another.
C2_Witness ==
    /\ Len(eventsOf("new QmlFilter")) = 1
    /\ Len(eventsOf("delete QmlFilter")) = 1
    /\ m_currentFilter # NullFilter

\* C3: a setCurrentFilter call whose index differs from the current one and
\* whose attached entry has metadata emits exactly two currentFilterChanged
\* notifications: (null, null, NoCurrentFilter), then (the new adapter, its
\* metadata, the requested index).
C3_NullThenNewNotification ==
    (/\ lastOp.op # "setProducer"
     /\ selectionChanged
     /\ getMetadata(m_attachedModel, m_currentFilterIndex) # NullMeta)
    => /\ Len(notifications) = 2
       /\ notifications[1].filter = NullId
       /\ notifications[1].meta = NullMeta
       /\ notifications[1].index = NoCurrentFilter
       /\ notifications[2].filter = m_currentFilter.id
       /\ notifications[2].filter # NullId
       /\ notifications[2].meta = getMetadata(m_attachedModel, m_currentFilterIndex)
       /\ notifications[2].index = m_currentFilterIndex

\* C4: setCurrentFilter with the current index emits nothing, leaves
\* "_hide" alone, requests no refresh and changes none of
\* m_currentFilterIndex, m_mltService, m_currentFilter.
C4_SameIndexIsNoOp ==
    [][(lastOp'.op = "setCurrentFilter" /\ lastOp'.arg = m_currentFilterIndex)
        => /\ emitted' = <<>>
           /\ UNCHANGED <<m_currentFilterIndex, m_mltService, m_currentFilter,
                          hide, live, m_attachedModel>>]_vars

\* setCurrentFilter(i) was called while row i, which has an adapter, was
\* current.
C4_Witness ==
    /\ lastOp.op = "setCurrentFilter"
    /\ lastOp.arg = m_currentFilterIndex
    /\ emitted = <<>>
    /\ m_currentFilter # NullFilter
    /\ m_currentFilterIndex >= 0

\* C5 as claimed: no function other than setCurrentFilter assigns
\* m_currentFilterIndex.
C5_OnlySetCurrentFilterAssigns ==
    \A k \in 1..Len(emitted) :
        emitted[k].sig = "m_currentFilterIndex =" => emitted[k].by = "setCurrentFilter"

\* C5 amended: m_currentFilterIndex is assigned by setCurrentFilter and, with
\* the value DeselectCurrentFilter only and right before their call of
\* setCurrentFilter, by handleAttachedRowsRemoved and
\* handleAttachedRowsInserted; no other function assigns it, and whenever a
\* slot changes the index the last write is setCurrentFilter's.
C5_IndexWriters ==
    [][/\ \A k \in 1..Len(emitted') :
             emitted'[k].sig = "m_currentFilterIndex =" =>
                 \/ emitted'[k].by = "setCurrentFilter"
                 \/ /\ emitted'[k].by \in {"handleAttachedRowsRemoved",
                                           "handleAttachedRowsInserted"}
                    /\ emitted'[k].index = DeselectCurrentFilter
                    /\ k < Len(emitted')
                    /\ emitted'[k + 1].sig = "m_currentFilterIndex ="
                    /\ emitted'[k + 1].by = "setCurrentFilter"
       /\ m_currentFilterIndex' # m_currentFilterIndex =>
             \E k \in 1..Len(emitted') :
                 /\ emitted'[k].sig = "m_currentFilterIndex ="
                 /\ emitted'[k].by = "setCurrentFilter"
                 /\ emitted'[k].index = m_currentFilterIndex'
                 /\ \A j \in (k + 1)..Len(emitted') :
                        emitted'[j].sig # "m_currentFilterIndex ="]_vars

\* A row handler wrote the sentinel and setCurrentFilter then wrote the
\* index of a row.
C5_Witness ==
    /\ lastOp.op = "rowsInserted"
    /\ Len(emitted) >= 2
    /\ emitted[1].by = "handleAttachedRowsInserted"
    /\ emitted[1].index = DeselectCurrentFilter
    /\ m_currentFilterIndex >= 0
    /\ m_currentFilter # NullFilter

\* The signals of the adapter the relay emits.
adapterSignals ==
    {"changed", "animateInChanged", "animateOutChanged", "inChanged", "outChanged"}

emittedSignals == {emitted[k].sig : k \in 1..Len(emitted)}

relayOps ==
    {"onFadeInChanged", "onFadeOutChanged", "onServiceInChanged", "onServiceOutChanged"}

\* C6 as claimed: a fade-in, fade-out, in-point or out-point event whose
\* originating service is absent or is not the adapter's service makes the
\* adapter emit none of its signals.
C6_RelayOnlyFromBoundService ==
    (/\ lastOp.op \in relayOps
     /\ (lastOp.origin = NullService \/ lastOp.origin # m_currentFilter.service))
    => emittedSignals \cap adapterSignals = {}

\* C6 amended: an in-point or out-point event whose originating service is
\* present and is not the adapter's service makes the adapter emit nothing;
\* one with a non-zero delta whose originating service is absent is
\* forwarded to the active adapter; a fade-in or fade-out event is forwarded
\* to the active adapter whatever service it originates from.
C6_RelayUnlessOtherService ==
    /\ (/\ lastOp.op \in {"onServiceInChanged", "onServiceOutChanged"}
        /\ lastOp.origin # NullService
        /\ lastOp.origin # m_currentFilter.service)
       => emittedSignals \cap adapterSignals = {}
    /\ (/\ lastOp.op \in {"onServiceInChanged", "onServiceOutChanged"}
        /\ lastOp.origin = NullService
        /\ lastOp.delta # 0
        /\ m_currentFilter # NullFilter)
       => emittedSignals \cap {"inChanged", "outChanged"} # {}
    /\ (/\ lastOp.op \in {"onFadeInChanged", "onFadeOutChanged"}
        /\ m_currentFilter # NullFilter)
       => /\ "changed" \in emittedSignals
          /\ emittedSignals \cap {"animateInChanged", "animateOutChanged"} # {}

\* An in-point change of another service arrived while an adapter was
\* active.
C6_Witness ==
    /\ lastOp.op = "onServiceInChanged"
    /\ lastOp.delta # 0
    /\ lastOp.origin # NullService
    /\ m_currentFilter # NullFilter
    /\ lastOp.origin # m_currentFilter.service
    /\ emitted = <<>>

\* Whether the metadata model holds the descriptor of file i.
added(i) == \E k \in 1..Len(m_metadataModel) : m_metadataModel[k].file = i

\* The log entries of file i other than the "reading filter metadata"
\* entry written for every file before it is instantiated.
outcomeEntries(i) ==
    SelectSeq(log, LAMBDA e : e[2] = i /\ e[1] # "reading filter metadata")

readingEntries(i) ==
    SelectSeq(log, LAMBDA e : e[2] = i /\ e[1] = "reading filter metadata")

\* The engine reports no version for the service of descriptor d, or one
\* that is nothing but a "lavfi" prefix, or one whose part after that
\* prefix d.isMltVersion accepts.
versionAllows(d) ==
    LET v == engine.version[d.mlt_service]
    IN  \/ v = NoVersion
        \/ v.num = 0
        \/ isMltVersion(d, [lavfi |-> FALSE, num |-> v.num])

\* C7 as claimed: a descriptor is in the metadata model only if the filter
\* registry holds its service, the reported version satisfies its minimum
\* and, for a Link, the link registry holds its service.
C7_AddedOnlyIfFilterVersionAndLink ==
    loadCount = 1 =>
        \A i \in 1..Len(dir) :
            added(i) =>
                /\ dir[i].ok
                /\ dir[i].mlt_service \in engine.filters
                /\ versionAllows(dir[i])
                /\ (dir[i].type = "Link" => dir[i].mlt_service \in engine.links)

\* C7 amended: a descriptor is in the metadata model only if it was
\* instantiated and either (a) the filter registry holds its service, the
\* glaxnimate producer exists if it is the maskGlaxnimate descriptor, and
\* the reported version allows it, or (b) it is of Link type and the link
\* registry holds its service.  A Link is added on (b) alone, whatever the
\* filter registry and the version say, and on (a) alone, whatever the link
\* registry says.
C7_AddedOnlyIfFilterOrLink ==
    loadCount = 1 =>
        \A i \in 1..Len(dir) :
            added(i) =>
                /\ dir[i].ok
                /\ \/ /\ dir[i].mlt_service \in engine.filters
                      /\ (dir[i].objectName = "maskGlaxnimate" => engine.glaxnimate)
                      /\ versionAllows(dir[i])
                   \/ /\ dir[i].type = "Link"
                      /\ dir[i].mlt_service \in engine.links

\* A Link whose service the filter registry does not hold was added.
C7_Witness ==
    /\ loadCount = 1
    /\ \E i \in 1..Len(dir) :
          /\ added(i)
          /\ dir[i].type = "Link"
          /\ dir[i].mlt_service \notin engine.filters

\* C8: loadFilterMetadata does not run in the constructor, runs on the
\* first timer event, which kills the timer, and never runs again, so the
\* metadata model holds no descriptor twice.
C8_ScanRunsOnceDeferred ==
    /\ loadCount <= 1
    /\ timerActive <=> loadCount = 0
    /\ loadCount = 0 => (m_metadataModel = <<>> /\ log = <<>>)
    /\ loadCount = 1 => \A i \in 1..Len(dir) : Len(readingEntries(i)) = 1
    /\ \A j, k \in 1..Len(m_metadataModel) :
          m_metadataModel[j].file = m_metadataModel[k].file => j = k

\* The scan has run, added a descriptor, and other events followed.
C8_Witness ==
    /\ loadCount = 1
    /\ ~timerActive
    /\ Len(m_metadataModel) = 1
    /\ lastOp.op = "onFadeInChanged"
    /\ m_currentFilter # NullFilter

\* C9: duplicateAddFailed(index) produces exactly one statusChanged, naming
\* the filter of row index and emitted before any selection change, then
\* row index is the current one; no null metadata is dereferenced and the
\* attached list is unchanged.
C9_DuplicateAttachReported ==
    [][lastOp'.op = "duplicateAddFailed"
        => /\ Len(emitted') >= 1
           /\ emitted'[1].sig = "statusChanged"
           /\ emitted'[1].meta # NullMeta
           /\ emitted'[1].meta = getMetadata(m_attachedModel, lastOp'.arg)
           /\ \A k \in 2..Len(emitted') : emitted'[k].sig # "statusChanged"
           /\ m_currentFilterIndex' = lastOp'.arg
           /\ m_attachedModel' = m_attachedModel]_vars

\* A duplicate attach of a row that was not current: the status message,
\* then the selection change.
C9_Witness ==
    /\ lastOp.op = "duplicateAddFailed"
    /\ Len(emitted) > 1
    /\ emitted[1].sig = "statusChanged"
    /\ Len(notifications) = 2
    /\ m_currentFilterIndex = lastOp.arg

\* C10 as claimed: every file that is not added, malformed or rejected,
\* has a log entry reporting it.
C10_EveryFileNotAddedIsLogged ==
    loadCount = 1 =>
        \A i \in 1..Len(dir) : ~added(i) => Len(outcomeEntries(i)) >= 1

\* C10 amended: every file has the "reading filter metadata" entry written
\* before it is instantiated; a file that fails to instantiate has one
\* warning entry besides and is not added; a file that is instantiated and
\* rejected by the checks has no entry besides and is not reported; the
\* scan goes on to the remaining files and completes.
C10_MalformedLoggedRejectedSilent ==
    loadCount = 1 =>
        \A i \in 1..Len(dir) :
            /\ Len(readingEntries(i)) = 1
            /\ ~dir[i].ok =>
                  (~added(i) /\ outcomeEntries(i) = <<<<"warning", i>>>>)
            /\ (dir[i].ok /\ ~added(i)) => outcomeEntries(i) = <<>>
            /\ (dir[i].ok /\ added(i)) =>
                  /\ Len(outcomeEntries(i)) = 1
                  /\ outcomeEntries(i)[1][1] \in {"added filter", "added link"}

\* A file rejected by the checks was skipped without an entry and the file
\* after it was added.
C10_Witness ==
    /\ loadCount = 1
    /\ Len(dir) = 2
    /\ dir[1].ok /\ ~added(1)
    /\ added(2)

\* The display name a descriptor is instantiated with, and that name with
\* the suffix of line 106 appended once.
plainName == <<"name">>
deprecatedName == <<"name", "(DEPRECATED)">>

\* C11: after the metadata scan every descriptor of the metadata model whose
\* isDeprecated flag is set carries the suffix "(DEPRECATED)" after its
\* display name exactly once, and no other descriptor carries it.
C11_DeprecatedLabelledOnce ==
    loadCount = 1 =>
        \A k \in 1..Len(m_metadataModel) :
            LET meta == m_metadataModel[k]
            IN  /\ meta.isDeprecated = dir[meta.file].isDeprecated
                /\ meta.isDeprecated => meta.name = deprecatedName
                /\ ~meta.isDeprecated => meta.name = plainName

\* The scan added a deprecated descriptor and one that is not.
C11_Witness ==
    /\ loadCount = 1
    /\ \E j, k \in 1..Len(m_metadataModel) :
          /\ m_metadataModel[j].isDeprecated
          /\ m_metadataModel[j].name = deprecatedName
          /\ ~m_metadataModel[k].isDeprecated
          /\ m_metadataModel[k].name = plainName

\* C12: whenever removeCurrent calls m_attachedModel.remove(i), row i
\* exists: 0 <= i < rowCount; once the last remaining filter has been
\* removed, a further removeCurrent makes no such call.
C12_RemoveOnlyExistingRow ==
    [][lastOp'.op = "removeCurrent" =>
          \A k \in 1..Len(emitted') :
              emitted'[k].sig = "m_attachedModel.remove" =>
                  /\ 0 <= emitted'[k].index
                  /\ emitted'[k].index < rowCount(m_attachedModel)]_vars

\* The last slot built an adapter and m_currentFilter holds it.
freshAdapter ==
    /\ m_currentFilter # NullFilter
    /\ \E k \in 1..Len(emitted) :
          /\ emitted[k].sig = "new QmlFilter"
          /\ emitted[k].filter = m_currentFilter.id

\* C13: removeCurrent at index i of a list of n >= 2 rows leaves the
\* current index at i when row i was not the last one and at n - 2 when it
\* was, with a fresh adapter bound to the row now at that index, and the
\* selection is made anew although the index may equal the old one.
C13_SuccessorSelectedAfterRemoveCurrent ==
    [][(/\ lastOp'.op = "removeCurrent"
        /\ rowCount(m_attachedModel) >= 2
        /\ 0 <= m_currentFilterIndex
        /\ m_currentFilterIndex < rowCount(m_attachedModel))
       => /\ rowCount(m_attachedModel') = rowCount(m_attachedModel) - 1
          /\ m_currentFilterIndex' =
                (IF m_currentFilterIndex < rowCount(m_attachedModel) - 1
                 THEN m_currentFilterIndex
                 ELSE rowCount(m_attachedModel) - 2)
          /\ selectionChanged'
          /\ freshAdapter'
          /\ m_currentFilter'.service =
                getService(m_attachedModel', m_currentFilterIndex')
          /\ m_currentFilter'.meta =
                getMetadata(m_attachedModel', m_currentFilterIndex')]_vars

\* C14: between slots a live adapter is bound to the attached entry at the
\* current index: m_currentFilter non-null implies that
\* m_currentFilterIndex is the index of a row, that m_mltService is the
\* service of that row and that the adapter wraps that service.
C14_AdapterBoundToCurrentRow ==
    m_currentFilter # NullFilter =>
        /\ 0 <= m_currentFilterIndex
        /\ m_currentFilterIndex < rowCount(m_attachedModel)
        /\ m_mltService = getService(m_attachedModel, m_currentFilterIndex)
        /\ m_currentFilter.service = m_mltService

\* What listeners should believe: the adapter, the metadata of the entry at
\* the current index, the current index.
selectionState ==
    <<m_currentFilter.id, getMetadata(m_attachedModel, m_currentFilterIndex),
      m_currentFilterIndex>>

\* The (filter, metadata, index) arguments of a currentFilterChanged event.
notified(e) == <<e.filter, e.meta, e.index>>

\* C15: the most recent currentFilterChanged notification equals the
\* controller's state: a slot that emitted notifications ends in the state
\* its last one announced, and a slot that emitted none leaves that state as
\* it was.
C15_LastNotificationIsState ==
    [][IF Len(notifications') > 0
       THEN notified(notifications'[Len(notifications')]) = selectionState'
       ELSE selectionState' = selectionState]_vars

\* The service bound before a selection change: the adapter's, or without
\* an adapter the one m_mltService holds.
previouslyBound ==
    IF m_currentFilter # NullFilter THEN m_currentFilter.service ELSE m_mltService

rowHandlers == {"handleAttachedRowsRemoved", "handleAttachedRowsInserted"}

C18_ResetClearsSelection ==
    [][lastOp'.op = "setProducer" =>
          /\ m_currentFilterIndex' = NoCurrentFilter
          /\ m_currentFilter' = NullFilter
          /\ live' = {}
          /\ m_currentFilterIndex # NoCurrentFilter =>
                /\ Len(notifications') = 1
                /\ notified(notifications'[1]) = <<NullId, NullMeta, NoCurrentFilter>>
          /\ m_currentFilterIndex = NoCurrentFilter => emitted' = <<>>]_vars

\* The attached model was reset while a row with an adapter was current:
\* one notification, and the adapter was deleted.
C18_Witness ==
    /\ lastOp.op = "setProducer"
    /\ Len(notifications) = 1
    /\ Len(eventsOf("delete QmlFilter")) = 1
    /\ m_currentFilterIndex = NoCurrentFilter
    /\ rowCount(m_attachedModel) >= 1

\* C19: the adapter a slot builds is marked new exactly when the slot is
\* handleAttachedRowsInserted, and that adapter is bound to the inserted
\* row, first clamped to the list; the adapters built on a removal, on a
\* refused duplicate and on a direct setCurrentFilter(index) are not new.
C19_NewExactlyOnInsertion ==
    freshAdapter =>
        /\ m_currentFilter.isNew <=> lastOp.op = "rowsInserted"
        /\ lastOp.op \in {"rowsRemoved", "removeCurrent", "duplicateAddFailed",
                          "setCurrentFilter"} => ~m_currentFilter.isNew
        /\ lastOp.op = "rowsInserted" =>
              LET row == qBound(0, lastOp.arg, rowCount(m_attachedModel) - 1)
              IN  /\ m_currentFilterIndex = row
                  /\ lastOp.service # NullService
                  /\ m_currentFilter.service = lastOp.service
                  /\ m_currentFilter.service = getService(m_attachedModel, row)
                  /\ m_currentFilter.meta = getMetadata(m_attachedModel, row)

\* A row was inserted behind another one and the adapter built for it is
\* marked new.
C19_Witness ==
    /\ lastOp.op = "rowsInserted"
    /\ lastOp.arg = 1
    /\ freshAdapter
    /\ m_currentFilter.isNew
    /\ m_currentFilterIndex = 1

\* The rows of the metadata model whose uniqueId is id.
rowsWithId(id) ==
    {k \in 1..Len(m_metadataModel) : uniqueId(m_metadataModel[k]) = id}

\* C20: metadataForService returns the first descriptor, in the order of the
\* metadata model, whose uniqueId equals the service's shotcut filter
\* property or, when that property is empty, the service's mlt_service; it
\* returns null when no descriptor matches, and it leaves the metadata
\* model as it is.
C20_FirstMatchOrNull ==
    [][lastOp'.op = "metadataForService" =>
          LET service == lastOp'.service
              id == IF service.filter # "" THEN service.filter
                    ELSE service.mlt_service
              result == emitted'[1].meta
          IN  /\ rowsWithId(id) = {} => result = NullMeta
              /\ rowsWithId(id) # {} =>
                    \E k \in rowsWithId(id) :
                        /\ \A j \in rowsWithId(id) : k <= j
                        /\ result = m_metadataModel[k].file
              /\ m_metadataModel' = m_metadataModel]_vars

\* A service without the shotcut filter property was resolved through its
\* mlt_service to the first of two descriptors of that uniqueId.
C20_Witness ==
    /\ lastOp.op = "metadataForService"
    /\ lastOp.service.filter = ""
    /\ Len(m_metadataModel) = 2
    /\ rowsWithId(lastOp.service.mlt_service) = {1, 2}
    /\ emitted[1].meta = m_metadataModel[1].file

=============================================================================
